---- MODULE Spec2Model ----
(***************************************************************************)
(* Model of the document-cleaning pipeline:                                *)
(*   DocumentCleaner (src/document_cleaner/clean_document.py) driving      *)
(*   FastAPIClient   (src/shared/api_client.py).                            *)
(* A text is a sequence of one-character strings.  One HTTP POST, one      *)
(* sleep and one loop head are one step each, so that attempts, requests   *)
(* and waits can be counted.                                               *)
(***************************************************************************)
EXTENDS Integers, Sequences, FiniteSets, TLC

\* ------------------------------------------------------------------ bounds
MaxChunks == 2
MaxRetries == 1
TenChunks == 10
ScenarioChunks == 4
ScenarioRetries == 3
MaxTextLen == 4
MaxSize == 3

\* ------------------------------------------------------- program constants
MAX_RETRIES == 3
RETRY_DELAY == 1
NoStatus == 0
BASE_DELAY == 1
DEFAULT_CHUNK_SIZE == 1500

\* ------------------------------------------------------------------- texts
Whitespace == {" ", "\n", "\t"}

RECURSIVE LStrip(_)
LStrip(s) ==
    IF s = <<>> THEN <<>>
    ELSE IF Head(s) \in Whitespace THEN LStrip(Tail(s)) ELSE s

RECURSIVE RStrip(_)
RStrip(s) ==
    IF s = <<>> THEN <<>>
    ELSE IF s[Len(s)] \in Whitespace THEN RStrip(SubSeq(s, 1, Len(s) - 1)) ELSE s

Strip(s) == RStrip(LStrip(s))

Truthy(s) == s # <<>>

\* ------------------------------------------------------------- exceptions
APIClientError(msg, status) == [msg |-> msg, status_code |-> status]

NoError == [msg |-> "None", status_code |-> NoStatus]

IsClientErrorWide(e) ==
    e.status_code # NoStatus /\ 200 <= e.status_code /\ e.status_code < 500

IsClientError(e) ==
    e.status_code # NoStatus /\ 400 <= e.status_code /\ e.status_code < 500

\* ----------------------------------------------------- values and service
Str(s) == [type |-> "str", val |-> s]

NoValue == [type |-> "unset", val |-> <<>>]

Contents == { <<"a">>, <<"b">>, <<" ">> }

CleanTexts == { <<"a">>, <<" ">>, <<>> }

ErrorResponses ==
    { "connection", "timeout", "request", "http4xx", "http5xx",
      "bad_json", "no_field" }

TypeErrorResponses == { "null_text" }

HTTPErrorResponses == { "http4xx", "http5xx" }

Responses ==
    { [kind |-> "ok", body |-> Str(t)] : t \in CleanTexts }
    \cup { [kind |-> "ok", body |-> [type |-> "list", val |-> <<>>]] }
    \cup { [kind |-> k, body |-> NoValue] : k \in ErrorResponses \cup TypeErrorResponses }

ErrorOf(kind) ==
    CASE kind = "connection" -> APIClientError("connection", NoStatus)
      [] kind = "timeout"    -> APIClientError("timeout", NoStatus)
      [] kind = "request"    -> APIClientError("request", NoStatus)
      [] kind = "http4xx"    -> APIClientError("http", 400)
      [] kind = "http5xx"    -> APIClientError("http", 500)
      [] kind = "bad_json"   -> APIClientError("bad_json", 200)
      [] kind = "no_field"   -> APIClientError("no_field", 200)

TransientKinds == { "connection", "timeout", "http5xx" }

PermanentKinds == { "http4xx" }

\* ------------------------------------------------------------ documents
Chunk(c) == [content |-> c, char_count |-> Len(c)]

RECURSIVE SeqsUpTo(_, _)
SeqsUpTo(S, n) ==
    IF n = 0 THEN { <<>> }
    ELSE LET shorter == SeqsUpTo(S, n - 1)
         IN  shorter \cup { Append(q, x) : q \in { r \in shorter : Len(r) = n - 1 }, x \in S }

Docs == { d \in SeqsUpTo({ Chunk(c) : c \in Contents }, MaxChunks) : Len(d) >= 1 }

Repeat(x, n) == [k \in 1..n |-> x]

InputStates == { "text", "missing", "blank", "undecodable" }

NoResult == [success |-> FALSE, cleaned_length |-> 0, chunks_processed |-> 0]

VARIABLES
    pc,             \* position of the run
    input_file,     \* what the input path holds
    doc,            \* the chunks the splitter yields for the input text
    max_retries,    \* DocumentCleaner.max_retries
    chunks,         \* clean_document: chunks
    i,              \* _clean_chunks: index of the chunk being processed (1-based)
    cleaned_chunks, \* _clean_chunks: cleaned_chunks
    successful,     \* _clean_chunks: successful
    failed,         \* _clean_chunks: failed
    attempt,        \* _clean_single_chunk: attempt
    last_error,     \* _clean_single_chunk: last_error
    cleaned_text,   \* _clean_single_chunk: value returned by clean_text
    gw_attempt,     \* clean_text: attempt
    last_exception, \* clean_text: last_exception
    gw_slept,       \* history: seconds slept by the current clean_text call
    http_error,     \* the HTTPError whose body is being read, NoError if none
    aggregated,     \* clean_document: cleaned_text
    output,         \* content of the output file, NoValue when not written
    error,          \* cause of the DocumentCleaningError raised by clean_document
    result,         \* dictionary returned by clean_document, NoResult before
    calls,          \* history: clean_text calls made for the current chunk
    requests,       \* history: HTTP POSTs sent for the current chunk
    slept,          \* history: seconds slept by _clean_single_chunk for the current chunk
    outcomes,       \* history: per processed chunk, how its text was obtained
    allTransient,   \* history: every response so far was a transient failure
    allPermanent,   \* history: every response so far was a 4xx
    seg_pc,             \* position of the splitter: new, ready, invalid, split, rejected
    chunk_size,         \* LangChainTextSplitter.__init__: argument chunk_size
    chunk_overlap,      \* LangChainTextSplitter.__init__: argument chunk_overlap
    self_chunk_size,    \* LangChainTextSplitter.chunk_size
    self_chunk_overlap, \* LangChainTextSplitter.chunk_overlap
    text,               \* split_text: text
    seg_chunks,         \* split_text: chunks
    chat_pc,            \* position of the sales chat: idle, start, loop, ended, error
    chat_history,       \* SalesChatApp.chat_history
    user_input,         \* _conversation_loop: user_input, stripped
    payload,            \* _get_ai_response: payload of the last POST
    posts,              \* history: number of POST requests to /chat
    turn_result         \* history: how the last turn ended

vars == << pc, input_file, doc, max_retries, chunks, i, cleaned_chunks, successful,
           failed, attempt, last_error, cleaned_text, gw_attempt, last_exception,
           gw_slept, http_error, aggregated, output, error, result, calls, requests, slept, outcomes,
           allTransient, allPermanent, seg_pc, chunk_size, chunk_overlap,
           self_chunk_size, self_chunk_overlap, text, seg_chunks,
           chat_pc, chat_history, user_input, payload, posts, turn_result >>

\* ------------------------------------------------------------ reassembly
Upper ==
    { "A", "B", "C", "D", "E", "F", "G", "H", "I", "J", "K", "L", "M",
      "N", "O", "P", "Q", "R", "S", "T", "U", "V", "W", "X", "Y", "Z" }

RECURSIVE JoinSpace(_)
JoinSpace(parts) ==
    IF parts = <<>> THEN <<>>
    ELSE IF Len(parts) = 1 THEN parts[1]
    ELSE parts[1] \o <<" ">> \o JoinSpace(Tail(parts))

\* keeps the texts that are not blank, untrimmed
RECURSIVE KeptUntrimmed(_)
KeptUntrimmed(texts) ==
    IF texts = <<>> THEN <<>>
    ELSE IF Truthy(Strip(Head(texts)))
         THEN << Head(texts) >> \o KeptUntrimmed(Tail(texts))
         ELSE KeptUntrimmed(Tail(texts))

RECURSIVE StrippedNonEmpty(_)
StrippedNonEmpty(texts) ==
    IF texts = <<>> THEN <<>>
    ELSE IF Truthy(Strip(Head(texts)))
         THEN <<Strip(Head(texts))>> \o StrippedNonEmpty(Tail(texts))
         ELSE StrippedNonEmpty(Tail(texts))

RECURSIVE CollapseSpaces(_)
CollapseSpaces(s) ==
    IF Len(s) < 2 THEN s
    ELSE IF s[1] = " " /\ s[2] = " " THEN CollapseSpaces(Tail(s))
    ELSE <<s[1]>> \o CollapseSpaces(Tail(s))

RECURSIVE SpaceAfterPeriod(_)
SpaceAfterPeriod(s) ==
    IF Len(s) < 2 THEN s
    ELSE IF s[1] = "." /\ s[2] \in Upper
         THEN <<".", " ", s[2]>> \o SpaceAfterPeriod(SubSeq(s, 3, Len(s)))
         ELSE <<s[1]>> \o SpaceAfterPeriod(Tail(s))

AggregateChunks(texts) ==
    Strip(SpaceAfterPeriod(CollapseSpaces(JoinSpace(StrippedNonEmpty(texts)))))

\* ------------------------------------------------------ failure threshold
TooManyFailuresAtHalf(nfailed, nchunks) == nfailed >= nchunks \div 2

TooManyFailures(nfailed, nchunks) == nfailed > nchunks \div 2

\* ------------------------------------------------------------------ Init
Configs ==
    { <<d, r>> : d \in Docs, r \in 0..MaxRetries }
    \cup { << Repeat(Chunk(<<"b">>), TenChunks), 0 >> }
    \cup { << Repeat(Chunk(<<"b">>), ScenarioChunks), ScenarioRetries >> }

\* an argument that was not passed (None), or the integer passed
None == [given |-> FALSE, val |-> 0]

Given(n) == [given |-> TRUE, val |-> n]

\* x or default: None and 0 are falsy
PyOr(x, default) == IF x.given /\ x.val # 0 THEN x.val ELSE default

\* locals and history of a run that has not started
FreshRun ==
    /\ chunks = <<>>
    /\ i = 0
    /\ successful = 0
    /\ failed = 0
    /\ attempt = 0
    /\ last_error = NoError
    /\ cleaned_text = NoValue
    /\ gw_attempt = 0
    /\ last_exception = NoError
    /\ gw_slept = 0
    /\ aggregated = <<>>
    /\ output = NoValue
    /\ error = "None"
    /\ result = NoResult
    /\ http_error = NoError
    /\ calls = 0
    /\ requests = 0
    /\ slept = 0
    /\ outcomes = <<>>
    /\ allTransient = TRUE
    /\ allPermanent = TRUE

Fresh ==
    /\ FreshRun
    /\ cleaned_chunks = <<>>

NoPayload == [message |-> <<>>, chat_history |-> <<>>]

\* no SalesChatApp has been built
ChatIdle ==
    /\ chat_pc = "idle"
    /\ chat_history = <<>>
    /\ user_input = <<>>
    /\ payload = NoPayload
    /\ posts = 0
    /\ turn_result = "none"

\* DocumentCleaner(): the splitter is built with the defaults
\* a DocumentCleaner built with one of the configurations, about to run
InitWith(configs) ==
    /\ pc = "load"
    /\ input_file \in InputStates
    /\ \E cfg \in configs :
          /\ doc = IF input_file = "text" THEN cfg[1] ELSE <<>>
          /\ max_retries = cfg[2]
    /\ Fresh
    /\ seg_pc = "ready"
    /\ chunk_size = None
    /\ chunk_overlap = None
    /\ self_chunk_size = PyOr(None, DEFAULT_CHUNK_SIZE)
    /\ self_chunk_overlap = PyOr(None, DEFAULT_CHUNK_SIZE \div 10)
    /\ text = <<>>
    /\ seg_chunks = <<>>
    /\ ChatIdle

Init == InitWith(Configs)

chatVars == << chat_pc, chat_history, user_input, payload, posts, turn_result >>

segVars == << seg_pc, chunk_size, chunk_overlap, self_chunk_size, self_chunk_overlap,
             text, seg_chunks >>
chunkVars == << chunks, i, cleaned_chunks, successful, failed >>
attemptVars == << attempt, last_error, cleaned_text >>
gatewayVars == << gw_attempt, last_exception, gw_slept >>
fileVars == << segVars, chatVars, input_file, doc, max_retries, aggregated, output, result >>
runVars == << fileVars, http_error >>
historyVars == << calls, requests, slept, outcomes, allTransient, allPermanent >>

\* ---------------------------------------------- the exception raised
DCE == "DocumentCleaningError"

\* type of the exception a failure starts with: the helpers raise
\* DocumentCleaningError themselves for a missing or empty file and for the
\* failure threshold; the other failures start with a built-in exception
Underlying(cause) ==
    CASE cause \in { "NotFound", "Empty", "TooManyFailures" } -> DCE
      [] cause = "EncodingError" -> "UnicodeDecodeError"
      [] OTHER -> cause

\* helpers that let every failure through as it is
HelperWrapsNone(cause) == FALSE

\* _load_document, _split_text and _save_document catch the built-in
\* exception and raise DocumentCleaningError in the except block, without
\* "from e": the built-in exception stays as the implicit context
HelperWraps(cause) == cause \in { "EncodingError", "ValueError", "IOError" }

\* what clean_document raises, outermost first: each exception with the link
\* to the next one (explicit cause, implicit context, or none)
Raised(cause) ==
    << [type |-> DCE, link |-> "cause"] >>
    \o (IF HelperWraps(cause) THEN << [type |-> DCE, link |-> "context"] >> ELSE <<>>)
    \o << [type |-> Underlying(cause), link |-> "none"] >>

\* An exception that nothing below clean_document catches: the run ends with
\* DocumentCleaningError wrapping it.
Abort(cause) ==
    /\ pc' = "failed"
    /\ error' = cause

\* loader without the check for empty content
LoadAcceptsBlank ==
    /\ pc = "load"
    /\ IF input_file \in { "text", "blank" }
       THEN /\ pc' = "split"
            /\ error' = error
       ELSE Abort(CASE input_file = "missing" -> "NotFound"
                    [] input_file = "undecodable" -> "EncodingError")
    /\ UNCHANGED << chunkVars, attemptVars, gatewayVars, runVars, historyVars >>

\* ------------------------------------------------------- clean_document
Load ==
    /\ pc = "load"
    /\ IF input_file = "text"
       THEN /\ pc' = "split"
            /\ error' = error
       ELSE Abort(CASE input_file = "missing" -> "NotFound"
                    [] input_file = "blank" -> "Empty"
                    [] input_file = "undecodable" -> "EncodingError")
    /\ UNCHANGED << chunkVars, attemptVars, gatewayVars, runVars, historyVars >>

\* _split_text: split_text raises ValueError for blank text, else the chunks
Split ==
    /\ pc = "split"
    /\ IF input_file # "text"
       THEN /\ Abort("ValueError")
            /\ UNCHANGED chunkVars
       ELSE /\ chunks' = doc
            /\ i' = 0
            /\ cleaned_chunks' = <<>>
            /\ successful' = 0
            /\ failed' = 0
            /\ pc' = "loop"
            /\ error' = error
    /\ UNCHANGED << attemptVars, gatewayVars, runVars, historyVars >>

\* ------------------------------------------------------- _clean_chunks
\* loop that moves on to the next chunk while the current one waits to retry
StartChunkEarly ==
    /\ pc \in { "loop", "backoff" }
    /\ i < Len(chunks)
    /\ i' = i + 1
    /\ attempt' = 0
    /\ last_error' = NoError
    /\ cleaned_text' = NoValue
    /\ calls' = 0
    /\ requests' = 0
    /\ slept' = 0
    /\ pc' = IF 0 <= max_retries THEN "call" ELSE "exhausted"
    /\ UNCHANGED << chunks, cleaned_chunks, successful, failed, gatewayVars, runVars,
                    outcomes, allTransient, allPermanent, error >>

\* for i, chunk in enumerate(chunks, 1): enter _clean_single_chunk
StartChunk ==
    /\ pc = "loop"
    /\ i < Len(chunks)
    /\ i' = i + 1
    /\ attempt' = 0
    /\ last_error' = NoError
    /\ cleaned_text' = NoValue
    /\ calls' = 0
    /\ requests' = 0
    /\ slept' = 0
    /\ pc' = IF 0 <= max_retries THEN "call" ELSE "exhausted"
    /\ UNCHANGED << chunks, cleaned_chunks, successful, failed, gatewayVars, runVars,
                    outcomes, allTransient, allPermanent, error >>

\* threshold check that still writes what was cleaned before giving up
ThresholdSavesPartial ==
    /\ pc = "loop"
    /\ i = Len(chunks)
    /\ IF TooManyFailures(failed, Len(chunks))
       THEN /\ Abort("TooManyFailures")
            /\ output' = Str(AggregateChunks(cleaned_chunks))
       ELSE /\ pc' = "aggregate"
            /\ error' = error
            /\ output' = output
    /\ UNCHANGED << chunkVars, attemptVars, gatewayVars, http_error, segVars, chatVars, input_file, doc, max_retries,
                    aggregated, result, historyVars >>

\* after the loop: the failure threshold
Threshold ==
    /\ pc = "loop"
    /\ i = Len(chunks)
    /\ IF TooManyFailures(failed, Len(chunks))
       THEN Abort("TooManyFailures")
       ELSE /\ pc' = "aggregate"
            /\ error' = error
    /\ UNCHANGED << chunkVars, attemptVars, gatewayVars, runVars, historyVars >>

\* Fallback that counts the failure but loses the chunk's text
FallbackDropsChunk ==
    /\ pc = "exhausted"
    /\ IF last_error = NoError
       THEN /\ Abort("TypeError")
            /\ UNCHANGED << cleaned_chunks, failed, outcomes, attemptVars >>
       ELSE /\ cleaned_chunks' = cleaned_chunks
            /\ failed' = failed + 1
            /\ outcomes' = Append(outcomes, [kind |-> "fallback", text |-> chunks[i].content, chunk |-> i])
            /\ attempt' = 0
            /\ last_error' = NoError
            /\ cleaned_text' = NoValue
            /\ pc' = "loop"
            /\ error' = error
    /\ UNCHANGED << chunks, i, successful, gatewayVars, runVars,
                    calls, requests, slept, allTransient, allPermanent >>

\* Fallback that gives up as soon as the threshold is exceeded
FallbackShortCircuit ==
    /\ pc = "exhausted"
    /\ IF last_error = NoError
       THEN /\ Abort("TypeError")
            /\ UNCHANGED << cleaned_chunks, failed, outcomes, attemptVars >>
       ELSE /\ cleaned_chunks' = Append(cleaned_chunks, chunks[i].content)
            /\ failed' = failed + 1
            /\ outcomes' = Append(outcomes, [kind |-> "fallback", text |-> chunks[i].content, chunk |-> i])
            /\ attempt' = 0
            /\ last_error' = NoError
            /\ cleaned_text' = NoValue
            /\ IF TooManyFailures(failed + 1, Len(chunks))
               THEN Abort("TooManyFailures")
               ELSE /\ pc' = "loop"
                    /\ error' = error
    /\ UNCHANGED << chunks, i, successful, gatewayVars, runVars,
                    calls, requests, slept, allTransient, allPermanent >>

\* Fallback that puts the original text in front of the texts collected so far
FallbackPrepends ==
    /\ pc = "exhausted"
    /\ IF last_error = NoError
       THEN /\ Abort("TypeError")
            /\ UNCHANGED << cleaned_chunks, failed, outcomes, attemptVars >>
       ELSE /\ cleaned_chunks' = << chunks[i].content >> \o cleaned_chunks
            /\ failed' = failed + 1
            /\ outcomes' = Append(outcomes, [kind |-> "fallback", text |-> chunks[i].content, chunk |-> i])
            /\ attempt' = 0
            /\ last_error' = NoError
            /\ cleaned_text' = NoValue
            /\ pc' = "loop"
            /\ error' = error
    /\ UNCHANGED << chunks, i, successful, gatewayVars, runVars,
                    calls, requests, slept, allTransient, allPermanent >>

\* Fallback that keeps the original text but does not count the failure
FallbackUncounted ==
    /\ pc = "exhausted"
    /\ IF last_error = NoError
       THEN /\ Abort("TypeError")
            /\ UNCHANGED << cleaned_chunks, failed, outcomes, attemptVars >>
       ELSE /\ cleaned_chunks' = Append(cleaned_chunks, chunks[i].content)
            /\ failed' = failed
            /\ outcomes' = Append(outcomes, [kind |-> "fallback", text |-> chunks[i].content, chunk |-> i])
            /\ attempt' = 0
            /\ last_error' = NoError
            /\ cleaned_text' = NoValue
            /\ pc' = "loop"
            /\ error' = error
    /\ UNCHANGED << chunks, i, successful, gatewayVars, runVars,
                    calls, requests, slept, allTransient, allPermanent >>

\* except APIClientError in _clean_chunks: the original text is the fallback
Fallback ==
    /\ pc = "exhausted"
    /\ IF last_error = NoError
       THEN /\ Abort("TypeError")
            /\ UNCHANGED << cleaned_chunks, failed, outcomes, attemptVars >>
       ELSE /\ cleaned_chunks' = Append(cleaned_chunks, chunks[i].content)
            /\ failed' = failed + 1
            /\ outcomes' = Append(outcomes, [kind |-> "fallback", text |-> chunks[i].content, chunk |-> i])
            /\ attempt' = 0
            /\ last_error' = NoError
            /\ cleaned_text' = NoValue
            /\ pc' = "loop"
            /\ error' = error
    /\ UNCHANGED << chunks, i, successful, gatewayVars, runVars,
                    calls, requests, slept, allTransient, allPermanent >>

\* ------------------------------------------------- _clean_single_chunk
\* retry loop that runs one iteration too many
AttemptFailedExtra(e) ==
    /\ last_error' = e
    /\ IF attempt <= max_retries
       THEN /\ attempt' = attempt + 1
            /\ pc' = "backoff"
       ELSE /\ attempt' = attempt
            /\ pc' = "exhausted"

\* except APIClientError as e: last_error = e, then the next iteration or the
\* end of the loop (raise last_error)
AttemptFailed(e) ==
    /\ last_error' = e
    /\ IF attempt < max_retries
       THEN /\ attempt' = attempt + 1
            /\ pc' = "backoff"
       ELSE /\ attempt' = attempt
            /\ pc' = "exhausted"

\* a wait of the same length before every retry
BackoffFlat ==
    /\ pc = "backoff"
    /\ slept' = slept + BASE_DELAY
    /\ pc' = "call"
    /\ UNCHANGED << chunkVars, attemptVars, gatewayVars, runVars, error,
                    calls, requests, outcomes, allTransient, allPermanent >>

\* if attempt > 0: time.sleep(attempt * 1.0)
Backoff ==
    /\ pc = "backoff"
    /\ slept' = slept + attempt * BASE_DELAY
    /\ pc' = "call"
    /\ UNCHANGED << chunkVars, attemptVars, gatewayVars, runVars, error,
                    calls, requests, outcomes, allTransient, allPermanent >>

\* clean_text that sends blank text like any other
CallGatewaySendsBlank ==
    /\ pc = "call"
    /\ calls' = calls + 1
    /\ gw_attempt' = 0
    /\ last_exception' = NoError
    /\ gw_slept' = 0
    /\ cleaned_text' = cleaned_text
    /\ pc' = "request"
    /\ UNCHANGED << chunkVars, attempt, last_error, runVars, error,
                    requests, slept, outcomes, allTransient, allPermanent >>

\* self.api_client.clean_text(chunk.content), up to the first request
CallGateway ==
    /\ pc = "call"
    /\ calls' = calls + 1
    /\ IF ~Truthy(chunks[i].content) \/ ~Truthy(Strip(chunks[i].content))
       THEN /\ cleaned_text' = Str(chunks[i].content)
            /\ pc' = "check"
            /\ UNCHANGED gatewayVars
       ELSE /\ gw_attempt' = 0
            /\ last_exception' = NoError
            /\ gw_slept' = 0
            /\ cleaned_text' = cleaned_text
            /\ pc' = "request"
    /\ UNCHANGED << chunkVars, attempt, last_error, runVars, error,
                    requests, slept, outcomes, allTransient, allPermanent >>

\* Check that tests the returned text for emptiness without stripping it
CheckNoStrip ==
    /\ pc = "check"
    /\ IF cleaned_text.type # "str"
       THEN /\ Abort("AttributeError")
            /\ UNCHANGED << cleaned_chunks, successful, outcomes, attemptVars >>
       ELSE IF ~Truthy(cleaned_text.val)
       THEN /\ AttemptFailed(APIClientError("empty_text", NoStatus))
            /\ cleaned_text' = NoValue
            /\ UNCHANGED << cleaned_chunks, successful, outcomes, error >>
       ELSE /\ cleaned_chunks' = Append(cleaned_chunks, cleaned_text.val)
            /\ successful' = successful + 1
            /\ outcomes' = Append(outcomes, [kind |-> "cleaned", text |-> cleaned_text.val, chunk |-> i])
            /\ attempt' = 0
            /\ last_error' = NoError
            /\ cleaned_text' = NoValue
            /\ pc' = "loop"
            /\ error' = error
    /\ UNCHANGED << chunks, i, failed, gatewayVars, runVars,
                    calls, requests, slept, allTransient, allPermanent >>

\* if not cleaned_text.strip(): raise APIClientError; return cleaned_text;
\* _clean_chunks appends it
Check ==
    /\ pc = "check"
    /\ IF cleaned_text.type # "str"
       THEN /\ Abort("AttributeError")
            /\ UNCHANGED << cleaned_chunks, successful, outcomes, attemptVars >>
       ELSE IF ~Truthy(Strip(cleaned_text.val))
       THEN /\ AttemptFailed(APIClientError("empty_text", NoStatus))
            /\ cleaned_text' = NoValue
            /\ UNCHANGED << cleaned_chunks, successful, outcomes, error >>
       ELSE /\ cleaned_chunks' = Append(cleaned_chunks, cleaned_text.val)
            /\ successful' = successful + 1
            /\ outcomes' = Append(outcomes, [kind |-> "cleaned", text |-> cleaned_text.val, chunk |-> i])
            /\ attempt' = 0
            /\ last_error' = NoError
            /\ cleaned_text' = NoValue
            /\ pc' = "loop"
            /\ error' = error
    /\ UNCHANGED << chunks, i, failed, gatewayVars, runVars,
                    calls, requests, slept, allTransient, allPermanent >>

\* ------------------------------------------- FastAPIClient.clean_text
\* raise last_exception: leaves clean_text, caught by _clean_single_chunk
GatewayRaise(e) ==
    /\ AttemptFailed(e)
    /\ gw_attempt' = 0
    /\ last_exception' = NoError
    /\ gw_slept' = 0

\* gateway loop that retries client errors like server errors
GatewayFailedRetriesAll(e) ==
    IF gw_attempt < MAX_RETRIES
    THEN /\ last_exception' = e
         /\ gw_attempt' = gw_attempt
         /\ gw_slept' = gw_slept
         /\ pc' = "gw_sleep"
         /\ UNCHANGED << attempt, last_error >>
    ELSE GatewayRaise(e)

\* gateway loop that retries once more than Config.MAX_RETRIES allows
GatewayFailedExtra(e) ==
    IF IsClientError(e) THEN GatewayRaise(e)
    ELSE IF gw_attempt <= MAX_RETRIES
    THEN /\ last_exception' = e
         /\ gw_attempt' = gw_attempt
         /\ gw_slept' = gw_slept
         /\ pc' = "gw_sleep"
         /\ UNCHANGED << attempt, last_error >>
    ELSE GatewayRaise(e)

\* except APIClientError as e in clean_text
GatewayFailed(e) ==
    IF IsClientError(e) THEN GatewayRaise(e)
    ELSE IF gw_attempt < MAX_RETRIES
    THEN /\ last_exception' = e
         /\ gw_attempt' = gw_attempt
         /\ gw_slept' = gw_slept
         /\ pc' = "gw_sleep"
         /\ UNCHANGED << attempt, last_error >>
    ELSE GatewayRaise(e)

\* _make_clean_text_request: one POST and the handling of its response
Request ==
    /\ pc = "request"
    /\ requests' = requests + 1
    /\ \E r \in Responses :
          /\ allTransient' = (allTransient /\ r.kind \in TransientKinds)
          /\ allPermanent' = (allPermanent /\ r.kind \in PermanentKinds)
          /\ IF r.kind = "ok"
             THEN /\ cleaned_text' = r.body
                  /\ gw_attempt' = 0
                  /\ last_exception' = NoError
                  /\ gw_slept' = 0
                  /\ pc' = "check"
                  /\ http_error' = http_error
                  /\ UNCHANGED << attempt, last_error, error >>
             ELSE IF r.kind \in TypeErrorResponses
             THEN /\ Abort("TypeError")
                  /\ UNCHANGED << attemptVars, gatewayVars >>
                  /\ http_error' = http_error
             ELSE IF r.kind \in HTTPErrorResponses
             THEN /\ http_error' = ErrorOf(r.kind)
                  /\ pc' = "error_details"
                  /\ UNCHANGED << attemptVars, gatewayVars, error >>
             ELSE /\ GatewayFailed(ErrorOf(r.kind))
                  /\ http_error' = http_error
                  /\ UNCHANGED << cleaned_text, error >>
    /\ UNCHANGED << chunkVars, fileVars, calls, slept, outcomes >>

\* except HTTPError: the error details are read from the body (from its text
\* if anything at all is raised meanwhile), then APIClientError is raised
ErrorDetails ==
    /\ pc = "error_details"
    /\ GatewayFailed(http_error)
    /\ http_error' = NoError
    /\ UNCHANGED << chunkVars, cleaned_text, fileVars, error, historyVars >>

\* time.sleep(Config.RETRY_DELAY * (attempt + 1)), then the next iteration
GwSleep ==
    /\ pc = "gw_sleep"
    /\ gw_slept' = gw_slept + RETRY_DELAY * (gw_attempt + 1)
    /\ gw_attempt' = gw_attempt + 1
    /\ pc' = "request"
    /\ UNCHANGED << chunkVars, attemptVars, last_exception, runVars, error, historyVars >>

\* ------------------------------------------------- aggregate and save
Aggregate ==
    /\ pc = "aggregate"
    /\ aggregated' = AggregateChunks(cleaned_chunks)
    /\ pc' = "save"
    /\ UNCHANGED << chunkVars, attemptVars, gatewayVars, http_error, segVars, chatVars, input_file, doc, max_retries,
                    output, result, error, historyVars >>

\* _save_document, then the result dictionary; a failing save may leave the
\* file untouched (mkdir or open failed) or truncated (write failed)
Save ==
    /\ pc = "save"
    /\ \E ok \in BOOLEAN :
          IF ok
          THEN /\ output' = Str(aggregated)
               /\ result' = [success |-> TRUE,
                             cleaned_length |-> Len(aggregated),
                             chunks_processed |-> Len(chunks)]
               /\ pc' = "done"
               /\ error' = error
          ELSE /\ Abort("IOError")
               /\ \E opened \in BOOLEAN :
                     output' = IF opened THEN Str(<<>>) ELSE output
               /\ result' = result
    /\ UNCHANGED << chunkVars, attemptVars, gatewayVars, http_error, segVars, chatVars, input_file, doc, max_retries,
                    aggregated, historyVars >>

\* ------------------------------------------------------- interruption
\* KeyboardInterrupt delivered while the run blocks in the POST or in a sleep:
\* no except clause below main() matches it, the frames are unwound.
\* Delivered while the body of an HTTP error is read, the bare "except:" there
\* catches it and the request fails like any other
Interrupt ==
    \/ /\ pc \in { "request", "gw_sleep", "backoff" }
       /\ pc' = "interrupted"
       /\ attempt' = 0
       /\ last_error' = NoError
       /\ cleaned_text' = NoValue
       /\ gw_attempt' = 0
       /\ last_exception' = NoError
       /\ gw_slept' = 0
       /\ UNCHANGED << chunkVars, runVars, historyVars, error >>
    \/ ErrorDetails

Next ==
    \/ Load
    \/ Split
    \/ StartChunk
    \/ Threshold
    \/ Fallback
    \/ Backoff
    \/ CallGateway
    \/ Check
    \/ Request
    \/ ErrorDetails
    \/ GwSleep
    \/ Aggregate
    \/ Save
    \/ Interrupt

Spec == Init /\ [][Next]_vars

\* short documents of chunks that can be cleaned or of blank ones, run by a
\* single thread that always takes its next step: every sleep ends and every
\* request returns
LiveConfigs ==
    { << Repeat(Chunk(c), n), r >> :
          c \in { << "a" >>, << " " >> }, n \in 1..MaxChunks, r \in 0..MaxRetries }

LiveInit == InitWith(LiveConfigs)

LiveSpec == LiveInit /\ [][Next]_vars /\ WF_vars(Next)

\* any integer may be passed as max_retries: negative ones as well
RetryConfigs == { <<d, r>> : d \in Docs, r \in (-2)..MaxRetries }

RetryInit == InitWith(RetryConfigs)

RetrySpec == RetryInit /\ [][Next]_vars

\* =================================================================== claims
\* _clean_chunks has returned its list (the run is past the cleaning stage)
ProcessAllReturned ==
    \/ pc \in { "aggregate", "save", "done" }
    \/ pc = "failed" /\ error = "IOError"

\* _clean_chunks has raised the threshold error
ProcessAllRaised == pc = "failed" /\ error = "TooManyFailures"

FallbackCount == Cardinality({ k \in 1..Len(outcomes) : outcomes[k].kind = "fallback" })

\* C1: whenever _clean_chunks returns normally for n chunks it returns exactly
\* n texts, the k-th being either the text the gateway returned and the
\* processor accepted for chunk k, or chunk k's original content.
C1_OneTextPerChunk ==
    ProcessAllReturned =>
        /\ Len(cleaned_chunks) = Len(doc)
        /\ Len(outcomes) = Len(doc)
        /\ \A k \in 1..Len(doc) :
              \/ outcomes[k].kind = "cleaned" /\ cleaned_chunks[k] = outcomes[k].text
              \/ outcomes[k].kind = "fallback" /\ cleaned_chunks[k] = doc[k].content

C1_Witness ==
    /\ pc = "done"
    /\ Len(doc) >= 2
    /\ \E k, l \in 1..Len(doc) :
          /\ outcomes[k].kind = "cleaned"
          /\ cleaned_chunks[k] # doc[k].content
          /\ outcomes[l].kind = "fallback"

\* C2: once every chunk is processed, _clean_chunks raises the threshold error
\* if and only if failed > n // 2, which is the same as failed being strictly
\* more than half of n; failed is the number of chunks that fell back.  With
\* 10 chunks, 5 fallbacks return and 6 raise.
C2_ThresholdIff ==
    /\ (ProcessAllReturned \/ ProcessAllRaised) =>
          /\ failed = FallbackCount
          /\ Len(outcomes) = Len(chunks)
          /\ ProcessAllRaised <=> failed > Len(chunks) \div 2
          /\ ProcessAllRaised <=> 2 * failed > Len(chunks)
    /\ (ProcessAllReturned /\ Len(chunks) = 10) => failed <= 5
    /\ (ProcessAllRaised /\ Len(chunks) = 10) => failed >= 6

C2_Witness ==
    /\ pc = "done"
    /\ Len(chunks) = TenChunks
    /\ failed = TenChunks \div 2
    /\ successful = TenChunks - TenChunks \div 2

\* C3: a fallback never stops the loop (the step that records it leads back to
\* the loop head, with no error raised), every chunk whose outcome is recorded
\* received at least one clean_text call, and the threshold error is raised
\* only once the outcome of the last chunk is recorded.
C3_Inv ==
    /\ ProcessAllRaised => (i = Len(chunks) /\ Len(outcomes) = Len(chunks))
    /\ (pc = "loop" /\ i >= 1) => (calls >= 1 /\ Len(outcomes) = i)
    /\ (pc = "loop" /\ i < Len(chunks)) => (ENABLED StartChunk /\ ~ENABLED Threshold)

C3_Step ==
    failed' # failed =>
        /\ failed' = failed + 1
        /\ pc' = "loop"
        /\ error' = "None"
        /\ i' = i

C3_NoShortCircuit == []C3_Inv /\ [][C3_Step]_vars

C3_Witness ==
    /\ ProcessAllRaised
    /\ Len(chunks) = ScenarioChunks
    /\ \A k \in 1..(ScenarioChunks - 1) : outcomes[k].kind = "fallback"
    /\ TooManyFailures(ScenarioChunks - 1, ScenarioChunks)
    /\ outcomes[ScenarioChunks].kind = "cleaned"

\* the chunk being processed, or just processed, is sent to the service
\* (clean_text returns blank text unchanged without any request)
CurrentIsSent == i >= 1 /\ Truthy(Strip(chunks[i].content))

\* the cleaning stage is over, one way or the other
CleaningOver == pc \in { "aggregate", "save", "done", "failed" } /\ input_file = "text"

\* C4 (as stated): when every response is a transient failure, a chunk that
\* has fallen back was attempted at the service exactly max_retries + 1 times.
C4_Original ==
    (pc = "loop" /\ CurrentIsSent /\ allTransient) => requests = max_retries + 1

\* C4 (amended): when every response is a transient failure, each chunk gets
\* exactly max_retries + 1 clean_text calls, and each of these calls sends
\* Config.MAX_RETRIES + 1 requests, so the chunk is requested
\* (max_retries + 1) * (Config.MAX_RETRIES + 1) times before it falls back;
\* the counts start afresh for each chunk and the run ends with every chunk
\* fallen back and the threshold error.
C4_AttemptsPerChunk ==
    allTransient =>
        /\ (pc = "loop" /\ i >= 1) =>
              /\ outcomes[i].kind = "fallback"
              /\ calls = max_retries + 1
              /\ requests = IF CurrentIsSent
                            THEN (max_retries + 1) * (MAX_RETRIES + 1) ELSE 0
        /\ (pc \in { "call", "request" } /\ calls = 0) => requests = 0
        /\ ~ProcessAllReturned
        /\ CleaningOver => (ProcessAllRaised /\ failed = Len(chunks))

C4_Witness ==
    /\ ProcessAllRaised
    /\ allTransient
    /\ Len(chunks) = ScenarioChunks
    /\ max_retries = ScenarioRetries
    /\ failed = ScenarioChunks
    /\ calls = ScenarioRetries + 1
    /\ requests = (ScenarioRetries + 1) * (MAX_RETRIES + 1)

\* C5 (as stated): one clean_text call sends exactly one request and never
\* waits between attempts.
C5_Original == gw_attempt = 0 /\ pc # "gw_sleep" /\ gw_slept = 0

\* C5 (amended): one clean_text call sends at most Config.MAX_RETRIES + 1
\* requests; it repeats the request after every failure that is not a 4xx
\* while attempts remain, waiting Config.RETRY_DELAY * k before its k-th
\* retry, and stops after the first response or the first 4xx.
C5_GatewayRetries ==
    /\ gw_attempt \in 0..MAX_RETRIES
    /\ requests <= calls * (MAX_RETRIES + 1)
    /\ pc \in { "request", "gw_sleep" } =>
          /\ requests >= (calls - 1) + gw_attempt
          /\ 2 * gw_slept = RETRY_DELAY * gw_attempt * (gw_attempt + 1)
    /\ pc = "gw_sleep" =>
          /\ last_exception # NoError
          /\ ~(last_exception.status_code \in 400..499)
          /\ gw_attempt < MAX_RETRIES
    /\ pc = "request" => (gw_attempt = 0 <=> last_exception = NoError)

C5_Witness ==
    /\ pc = "check"
    /\ calls = 1
    /\ requests = MAX_RETRIES + 1

\* C6: after a permanent failure (4xx) of the cleaning call the processor
\* makes no further attempt for the chunk: it goes straight to the fallback.
C6_NoRetryAfterPermanent ==
    (last_error.status_code \in 400..499) => pc = "exhausted"

C8_Inv ==
    \A k \in 1..Len(outcomes) :
        outcomes[k].kind = "cleaned" =>
            /\ Truthy(Strip(outcomes[k].text))
            /\ Truthy(Strip(cleaned_chunks[k]))

C8_Step ==
    /\ (pc = "check" /\ cleaned_text.type = "str" /\ Strip(cleaned_text.val) = <<>>) =>
          /\ UNCHANGED << cleaned_chunks, successful, failed >>
          /\ last_error'.msg = "empty_text"
          /\ IF attempt < max_retries
             THEN pc' = "backoff" /\ attempt' = attempt + 1
             ELSE pc' = "exhausted"
    /\ (pc \in { "request", "error_details" } /\ pc' \in { "backoff", "exhausted" }) =>
          IF attempt < max_retries
          THEN pc' = "backoff" /\ attempt' = attempt + 1
          ELSE pc' = "exhausted"
    /\ (pc = "exhausted" /\ last_error.msg = "empty_text") =>
          /\ cleaned_chunks' = Append(cleaned_chunks, doc[i].content)
          /\ failed' = failed + 1
          /\ pc' = "loop"

C8_BlankIsFailure == []C8_Inv /\ [][C8_Step]_vars

C8_Witness ==
    /\ pc = "exhausted"
    /\ last_error.msg = "empty_text"
    /\ CurrentIsSent
    /\ requests >= 1
    /\ max_retries >= 1
    /\ calls = max_retries + 1

\* C9 (as stated): if every response is a permanent failure, _clean_chunks
\* returns and does not raise.
C9_Original == (allPermanent /\ requests > 0) => ~ProcessAllRaised

\* C9 (amended): if every response is a permanent failure, every chunk is
\* recorded as a fallback carrying its original content unchanged, and
\* _clean_chunks then raises the threshold error instead of returning (all n
\* of n >= 1 chunks fell back, and n > n // 2).
C9_AllFallBack ==
    allPermanent =>
        /\ Len(cleaned_chunks) = Len(outcomes)
        /\ \A k \in 1..Len(outcomes) :
              /\ outcomes[k].kind = "fallback"
              /\ cleaned_chunks[k] = doc[k].content
        /\ failed = Len(outcomes)
        /\ successful = 0
        /\ ~ProcessAllReturned
        /\ CleaningOver => (ProcessAllRaised /\ Len(cleaned_chunks) = Len(doc))

C9_Witness ==
    /\ ProcessAllRaised
    /\ allPermanent
    /\ Len(chunks) = ScenarioChunks
    /\ \A k \in 1..ScenarioChunks : Truthy(Strip(chunks[k].content))
    /\ requests > 0

\* C10: a failure of the call for one chunk never aborts the run: a run that
\* has loaded its input is aborted only by the failure threshold or by a
\* failure outside chunk cleaning (here: saving).
C10_ChunkFailureAbsorbed ==
    (pc = "failed" /\ input_file = "text") => error \in { "TooManyFailures", "IOError" }

\* C11: before its k-th retry (1 <= k <= max_retries) the processor waits
\* k * BASE_DELAY; it does not wait before the first attempt of a chunk nor
\* after the last failed one, so a chunk that has used up its retries has
\* waited BASE_DELAY * max_retries * (max_retries + 1) / 2 in the processor.
C11_Inv ==
    /\ pc = "backoff" =>
          /\ attempt \in 1..max_retries
          /\ 2 * slept = BASE_DELAY * (attempt - 1) * attempt
    /\ pc \in { "call", "request", "error_details", "gw_sleep", "check" } =>
          /\ attempt \in 0..max_retries
          /\ 2 * slept = BASE_DELAY * attempt * (attempt + 1)
    /\ pc = "exhausted" =>
          /\ attempt = max_retries
          /\ 2 * slept = BASE_DELAY * max_retries * (max_retries + 1)
    /\ (pc = "loop" /\ i >= 1 /\ outcomes[i].kind = "fallback") =>
          2 * slept = BASE_DELAY * max_retries * (max_retries + 1)

C11_Step ==
    slept' # slept =>
        \/ pc = "backoff" /\ pc' = "call" /\ slept' = slept + attempt * BASE_DELAY
        \/ pc = "loop" /\ slept' = 0

C11_ProcessorBackoff == []C11_Inv /\ [][C11_Step]_vars

C11_Witness ==
    /\ pc = "exhausted"
    /\ max_retries = ScenarioRetries
    /\ calls = ScenarioRetries + 1
    /\ 2 * slept = BASE_DELAY * ScenarioRetries * (ScenarioRetries + 1)
    /\ slept >= 6

\* C12: a run that fails or is abandoned before the save step (at load, at
\* split, in chunk cleaning including the failure threshold, or by an
\* interruption) has written no output file: the file is written only by the
\* save step, which is reached only after load, split, _clean_chunks and
\* _aggregate_chunks have all succeeded.
C12_Inv ==
    /\ (pc = "failed" /\ error # "IOError") => output = NoValue
    /\ pc = "interrupted" => output = NoValue
    /\ output # NoValue =>
          /\ pc \in { "done", "failed" }
          /\ input_file = "text"
          /\ chunks = doc
          /\ Len(cleaned_chunks) = Len(chunks)
          /\ ~TooManyFailures(failed, Len(chunks))
          /\ aggregated = AggregateChunks(cleaned_chunks)

C12_Step == output' # output => pc = "save"

C12_NoOutputOnFailure == []C12_Inv /\ [][C12_Step]_vars

C12_Witness ==
    /\ pc = "failed"
    /\ error = "TooManyFailures"
    /\ successful >= 1
    /\ Len(cleaned_chunks) = Len(doc)
    /\ output = NoValue

\* all the texts of a list, one after the other
RECURSIVE Flatten(_)
Flatten(texts) ==
    IF texts = <<>> THEN <<>> ELSE Head(texts) \o Flatten(Tail(texts))

\* a text without its whitespace
Squeeze(s) == SelectSeq(s, LAMBDA c : c \notin Whitespace)

\* C13: the k-th text collected by _clean_chunks is the outcome of the k-th
\* chunk (the text accepted for it, or its own content), and the aggregated
\* document holds the non-blank texts in that order: nothing is reordered.
C13_OrderKept ==
    /\ Len(cleaned_chunks) = Len(outcomes)
    /\ \A k \in 1..Len(outcomes) :
          /\ outcomes[k].chunk = k
          /\ cleaned_chunks[k] = outcomes[k].text
          /\ outcomes[k].kind = "fallback" => cleaned_chunks[k] = doc[k].content
    /\ pc \in { "save", "done" } =>
          /\ aggregated = AggregateChunks(cleaned_chunks)
          /\ Squeeze(aggregated) = Squeeze(Flatten(cleaned_chunks))

C13_Witness ==
    /\ pc = "done"
    /\ Len(doc) = 2
    /\ outcomes[1].kind = "fallback"
    /\ outcomes[2].kind = "cleaned"
    /\ cleaned_chunks = << <<"b">>, <<"a">> >>
    /\ aggregated = << "b", " ", "a" >>

\* an attempt or a wait for the current chunk is under way
Busy ==
    pc \in { "call", "request", "error_details", "gw_sleep", "check", "backoff",
             "exhausted" }

\* C14: chunks are cleaned strictly one after the other: while an attempt or
\* a wait for chunk i is under way the outcomes of chunks 1..i-1, and only
\* these, are recorded; the gateway is idle outside its single call in
\* progress; chunk i+1 is started only from the loop head, with the outcome
\* of chunk i recorded.
C14_Inv ==
    /\ Busy => (i \in 1..Len(chunks) /\ Len(outcomes) = i - 1)
    /\ pc = "loop" => Len(outcomes) = i
    /\ pc \in { "loop", "call", "check", "backoff", "exhausted" } =>
          (gw_attempt = 0 /\ last_exception = NoError /\ gw_slept = 0)
    /\ pc # "error_details" => http_error = NoError

C14_Step ==
    /\ i' # i =>
          /\ pc = "loop"
          /\ i' = i + 1
          /\ Len(outcomes) = i
          /\ calls' = 0 /\ requests' = 0 /\ slept' = 0
    /\ outcomes' # outcomes =>
          /\ Busy
          /\ Len(outcomes') = Len(outcomes) + 1
          /\ outcomes'[i].chunk = i
          /\ pc' = "loop"
    /\ (calls' # calls \/ requests' # requests \/ slept' # slept) =>
          (i' = i \/ pc = "loop")

C14_Sequential == []C14_Inv /\ [][C14_Step]_vars

C14_Witness ==
    /\ pc = "backoff"
    /\ i = 2
    /\ Len(outcomes) = 1
    /\ requests >= 1

C16_Inv ==
    input_file = "blank" =>
        /\ pc \in { "load", "failed" }
        /\ pc = "failed" => error = "Empty"
        /\ chunks = <<>> /\ i = 0 /\ outcomes = <<>>
        /\ calls = 0 /\ requests = 0
        /\ output = NoValue

C16_Step ==
    (calls' # calls \/ requests' # requests) => input_file = "text"

C16_BlankInputNoRequest == []C16_Inv /\ [][C16_Step]_vars

C16_Witness ==
    /\ input_file = "blank"
    /\ pc = "failed"
    /\ error = "Empty"
    /\ requests = 0

\* C17: an interruption that arrives during a gateway call or a retry wait
\* abandons the run: nothing runs after it (no attempt for any chunk), the
\* current chunk gets no outcome (no fallback is recorded for it) and no
\* output and no result are produced.
C17_Inv ==
    pc = "interrupted" =>
        /\ ~ENABLED Next
        /\ Len(outcomes) = i - 1
        /\ output = NoValue
        /\ result = NoResult

C17_Step ==
    Interrupt =>
        /\ pc' = "interrupted"
        /\ UNCHANGED << cleaned_chunks, successful, failed, outcomes,
                        calls, requests, slept, output >>

C17_InterruptAbandons == []C17_Inv /\ [][C17_Step]_vars

CleanedCount == Cardinality({ k \in 1..Len(outcomes) : outcomes[k].kind = "cleaned" })

\* C18: at every point of _clean_chunks the counters successful and failed
\* add up to the number of chunks whose outcome is recorded, each counting
\* its own kind of outcome; when the loop is over they add up to the number
\* of chunks, which is the chunks_processed of the result dictionary.
C18_CountersAddUp ==
    /\ successful = CleanedCount
    /\ failed = FallbackCount
    /\ successful + failed = Len(outcomes)
    /\ Len(outcomes) <= Len(chunks)
    /\ (ProcessAllReturned \/ ProcessAllRaised) => successful + failed = Len(chunks)
    /\ pc = "done" =>
          /\ result.success
          /\ result.chunks_processed = successful + failed
          /\ result.chunks_processed = Len(doc)
    /\ pc # "done" => result = NoResult

C18_Witness ==
    /\ pc = "done"
    /\ successful >= 2
    /\ failed >= 2
    /\ result.chunks_processed = ScenarioChunks

\* ============================================================ the splitter
\* LangChainTextSplitter builds a RecursiveCharacterTextSplitter and lets it
\* split; the recursive splitting itself is described in the specification
\* of the Segmenter (4.1), which the definitions below follow.

TextChars == { "a", "b", ".", " ", "\n" }

Texts == SeqsUpTo(TextChars, MaxTextLen)

SizeArgs == { None } \cup { Given(n) : n \in -1..MaxSize }

\* self.separators, from the highest to the lowest priority
Separators ==
    << << "\n", "\n" >>, << "\n" >>, << ".", " " >>, << "!", " " >>, << "?", " " >>,
       << ";", " " >>, << ",", " " >>, << " " >>, <<>> >>

\* targetSize at least 1, overlap at least 0 and below targetSize
ValidConfiguration(size, overlap) == size >= 1 /\ 0 <= overlap /\ overlap < size

IsAt(sep, s, k) ==
    /\ k + Len(sep) - 1 <= Len(s)
    /\ \A j \in 1..Len(sep) : s[k + j - 1] = sep[j]

Occurs(sep, s) == \E k \in 1..Len(s) : IsAt(sep, s, k)

\* splitting that throws the separators away
RECURSIVE SplitOnDropsSeparator(_, _, _)
SplitOnDropsSeparator(s, sep, cur) ==
    IF s = <<>> THEN (IF cur = <<>> THEN <<>> ELSE << cur >>)
    ELSE IF IsAt(sep, s, 1)
    THEN (IF cur = <<>> THEN <<>> ELSE << cur >>)
         \o SplitOnDropsSeparator(SubSeq(s, Len(sep) + 1, Len(s)), sep, <<>>)
    ELSE SplitOnDropsSeparator(Tail(s), sep, Append(cur, Head(s)))

\* the pieces of s between the occurrences of sep, each separator kept at the
\* end of the piece before it
RECURSIVE SplitOn(_, _, _)
SplitOn(s, sep, cur) ==
    IF s = <<>> THEN (IF cur = <<>> THEN <<>> ELSE << cur >>)
    ELSE IF IsAt(sep, s, 1)
    THEN << cur \o sep >> \o SplitOn(SubSeq(s, Len(sep) + 1, Len(s)), sep, <<>>)
    ELSE SplitOn(Tail(s), sep, Append(cur, Head(s)))

\* splitting that has no character level: the empty separator splits nothing
PiecesNoChar(s, sep) ==
    IF sep = <<>> THEN << s >> ELSE SplitOn(s, sep, <<>>)

\* the empty separator splits at every character position
Pieces(s, sep) ==
    IF sep = <<>> THEN [k \in 1..Len(s) |-> << s[k] >>] ELSE SplitOn(s, sep, <<>>)

\* a span no longer than size is one piece; a longer one is split at the
\* first separator that occurs in it and its pieces are split again with the
\* separators of lower priority
RECURSIVE SplitSpan(_, _, _)
RECURSIVE SplitEach(_, _, _)
SplitSpan(s, seps, size) ==
    IF Len(s) <= size \/ seps = <<>> THEN << s >>
    ELSE IF Head(seps) # <<>> /\ ~Occurs(Head(seps), s)
    THEN SplitSpan(s, Tail(seps), size)
    ELSE SplitEach(Pieces(s, Head(seps)), Tail(seps), size)

SplitEach(ps, seps, size) ==
    IF ps = <<>> THEN <<>>
    ELSE SplitSpan(Head(ps), seps, size) \o SplitEach(Tail(ps), seps, size)

RECURSIVE JoinPieces(_)
JoinPieces(ps) == IF ps = <<>> THEN <<>> ELSE Head(ps) \o JoinPieces(Tail(ps))

TotalLen(ps) == Len(JoinPieces(ps))

\* the pieces at the end of a chunk that the next chunk starts with: at most
\* overlap characters, and few enough for the next piece to fit
RECURSIVE Shrink(_, _, _, _)
Shrink(cur, len, size, overlap) ==
    IF cur # <<>> /\ (TotalLen(cur) > overlap \/ TotalLen(cur) + len > size)
    THEN Shrink(Tail(cur), len, size, overlap)
    ELSE cur

\* adjacent pieces are merged while they fit into size; a new chunk starts
\* with the overlap carried from the one before
RECURSIVE MergeSplits(_, _, _, _)
MergeSplits(ps, cur, size, overlap) ==
    IF ps = <<>> THEN (IF cur = <<>> THEN <<>> ELSE << JoinPieces(cur) >>)
    ELSE IF cur # <<>> /\ TotalLen(cur) + Len(Head(ps)) > size
    THEN << JoinPieces(cur) >>
         \o MergeSplits(Tail(ps),
                        Append(Shrink(cur, Len(Head(ps)), size, overlap), Head(ps)),
                        size, overlap)
    ELSE MergeSplits(Tail(ps), Append(cur, Head(ps)), size, overlap)

\* the contents of the chunks: trimmed, and not empty
SplitContents(t, size, overlap) ==
    StrippedNonEmpty(MergeSplits(SplitSpan(t, Separators, size), <<>>, size, overlap))

\* the offset in the text at which each merged chunk begins, at being the
\* offset of the chunk under construction
RECURSIVE MergeStarts(_, _, _, _, _)
MergeStarts(ps, cur, at, size, overlap) ==
    IF ps = <<>> THEN (IF cur = <<>> THEN <<>> ELSE << at >>)
    ELSE IF cur # <<>> /\ TotalLen(cur) + Len(Head(ps)) > size
    THEN << at >>
         \o MergeStarts(Tail(ps),
                        Append(Shrink(cur, Len(Head(ps)), size, overlap), Head(ps)),
                        at + TotalLen(cur)
                           - TotalLen(Shrink(cur, Len(Head(ps)), size, overlap)),
                        size, overlap)
    ELSE MergeStarts(Tail(ps), Append(cur, Head(ps)), at, size, overlap)

\* the offsets of the chunks that are kept, moved past the whitespace that
\* trimming removes at their beginning
RECURSIVE StartsOfNonEmpty(_, _)
StartsOfNonEmpty(ms, starts) ==
    IF ms = <<>> THEN <<>>
    ELSE IF Truthy(Strip(Head(ms)))
         THEN << Head(starts) + Len(Head(ms)) - Len(LStrip(Head(ms))) >>
              \o StartsOfNonEmpty(Tail(ms), Tail(starts))
         ELSE StartsOfNonEmpty(Tail(ms), Tail(starts))

\* offsets taken from the first place in the text where the content occurs
SplitStartsFirstFind(t, size, overlap) ==
    LET FirstFind(c) ==
            (CHOOSE k \in 1..Len(t) :
                IsAt(c, t, k) /\ \A j \in 1..(k - 1) : ~IsAt(c, t, j)) - 1
    IN  [k \in 1..Len(SplitContents(t, size, overlap)) |->
            FirstFind(SplitContents(t, size, overlap)[k])]

\* the offsets into the text of the chunks of SplitContents
SplitStarts(t, size, overlap) ==
    StartsOfNonEmpty(MergeSplits(SplitSpan(t, Separators, size), <<>>, size, overlap),
                     MergeStarts(SplitSpan(t, Separators, size), <<>>, 0, size, overlap))

\* _create_chunk_info: content, its length, start_index and the end derived
ChunkInfo(c, start) ==
    [content |-> c, char_count |-> Len(c), start_pos |-> start, end_pos |-> start + Len(c)]

pipelineVars ==
    << pc, chunkVars, attemptVars, gatewayVars, http_error, input_file, doc,
       max_retries, aggregated, output, result, error, historyVars >>

\* a splitter about to be built with any arguments, for any text
SegInit ==
    /\ pc = "idle"
    /\ input_file = "text"
    /\ doc = <<>>
    /\ max_retries = 0
    /\ Fresh
    /\ seg_pc = "new"
    /\ chunk_size \in SizeArgs
    /\ chunk_overlap \in SizeArgs
    /\ self_chunk_size = 0
    /\ self_chunk_overlap = 0
    /\ text \in Texts
    /\ seg_chunks = <<>>
    /\ ChatIdle

\* LangChainTextSplitter.__init__
Construct ==
    /\ seg_pc = "new"
    /\ self_chunk_size' = PyOr(chunk_size, DEFAULT_CHUNK_SIZE)
    /\ self_chunk_overlap' = PyOr(chunk_overlap, DEFAULT_CHUNK_SIZE \div 10)
    /\ seg_pc' = IF ValidConfiguration(self_chunk_size', self_chunk_overlap')
                 THEN "ready" ELSE "invalid"
    /\ UNCHANGED << chunk_size, chunk_overlap, text, seg_chunks, pipelineVars, chatVars >>

\* LangChainTextSplitter.split_text
SplitText ==
    /\ seg_pc = "ready"
    /\ IF ~Truthy(text) \/ ~Truthy(Strip(text))
       THEN /\ seg_pc' = "rejected"
            /\ seg_chunks' = seg_chunks
       ELSE /\ seg_pc' = "split"
            /\ seg_chunks' =
                  LET cs == SplitContents(text, self_chunk_size, self_chunk_overlap)
                      ss == SplitStarts(text, self_chunk_size, self_chunk_overlap)
                  IN  [k \in 1..Len(cs) |-> ChunkInfo(cs[k], ss[k])]
    /\ UNCHANGED << chunk_size, chunk_overlap, self_chunk_size, self_chunk_overlap,
                    text, pipelineVars, chatVars >>

SegNext ==
    \/ Construct
    \/ SplitText

SegSpec == SegInit /\ [][SegNext]_vars

\* C19: the arguments of the splitter are validated: a chunk size below 1, an
\* overlap below 0 and an overlap not below the chunk size are rejected
\* before any chunk is made, and every other pair of arguments is used
\* exactly as given, an overlap of 0 included.
C19_ConfigValidated ==
    (chunk_size.given /\ chunk_overlap.given /\ seg_pc # "new") =>
        IF ValidConfiguration(chunk_size.val, chunk_overlap.val)
        THEN /\ seg_pc # "invalid"
             /\ self_chunk_size = chunk_size.val
             /\ self_chunk_overlap = chunk_overlap.val
        ELSE /\ seg_pc = "invalid"
             /\ seg_chunks = <<>>

\* C20: for a text that is not blank and a valid chunk size, every chunk that
\* split_text returns has at most chunk_size characters (its char_count), a
\* span without any separator being cut at character level.
C20_SizeBound ==
    seg_pc = "split" =>
        /\ (chunk_size.given /\ chunk_size.val >= 1) => self_chunk_size = chunk_size.val
        /\ Len(seg_chunks) >= 1
        /\ \A k \in 1..Len(seg_chunks) :
              /\ seg_chunks[k].char_count = Len(seg_chunks[k].content)
              /\ seg_chunks[k].char_count <= self_chunk_size
              /\ seg_chunks[k].char_count >= 1

C20_Witness ==
    /\ seg_pc = "split"
    /\ text = << "a", "b", "a", "b" >>
    /\ self_chunk_size = 2
    /\ Len(seg_chunks) >= 2
    /\ seg_chunks[1].content = << "a", "b" >>

\* C21: the chunks of a text that is not blank, laid over the text in order
\* at their offsets, give back the text: every chunk is the stretch of the
\* text that begins at its offset, and every character of the text that is
\* not whitespace lies in at least one chunk (characters shared by
\* consecutive chunks counting once); only whitespace at the seams is dropped.
C21_Coverage ==
    seg_pc = "split" =>
        /\ \A k \in 1..Len(seg_chunks) :
              SubSeq(text, seg_chunks[k].start_pos + 1, seg_chunks[k].end_pos)
                  = seg_chunks[k].content
        /\ \A p \in 1..Len(text) :
              text[p] \notin Whitespace =>
                  \E k \in 1..Len(seg_chunks) :
                      seg_chunks[k].start_pos < p /\ p <= seg_chunks[k].end_pos

C21_Witness ==
    /\ seg_pc = "split"
    /\ text = << "a", ".", " ", "b" >>
    /\ Len(seg_chunks) = 2
    /\ seg_chunks[1].content = << "a", "." >>
    /\ seg_chunks[2].content = << "b" >>
    /\ seg_chunks[2].start_pos = 3

\* C22: the chunks come in the order of the text: the start offsets never
\* decrease along the sequence, nor do the end offsets, and each start offset
\* is an offset into the text, at least 0.
C22_OffsetsMonotone ==
    seg_pc = "split" =>
        /\ \A k \in 1..Len(seg_chunks) :
              /\ seg_chunks[k].start_pos >= 0
              /\ seg_chunks[k].start_pos < Len(text)
              /\ seg_chunks[k].end_pos = seg_chunks[k].start_pos + seg_chunks[k].char_count
              /\ seg_chunks[k].end_pos <= Len(text)
        /\ \A k \in 2..Len(seg_chunks) :
              /\ seg_chunks[k - 1].start_pos <= seg_chunks[k].start_pos
              /\ seg_chunks[k - 1].end_pos <= seg_chunks[k].end_pos

C22_Witness ==
    /\ seg_pc = "split"
    /\ Len(seg_chunks) = 3
    /\ seg_chunks[1].content = seg_chunks[3].content
    /\ seg_chunks[1].start_pos < seg_chunks[2].start_pos
    /\ seg_chunks[2].start_pos < seg_chunks[3].start_pos

\* ------------------------------------------------------------------
\* _aggregate_chunks on its own: any short list of texts, among them blank
\* ones, texts with runs of spaces and with periods before capital letters
\* ------------------------------------------------------------------
MaxAggChars == 5

\* "É" stands for the capital letters outside A-Z
AggChars == { "a", "A", "É", ".", " ", "\n" }

\* mark between two texts of a list written as one sequence
Cut == "|"

\* the list of texts written in flat, between the marks
RECURSIVE CutAt(_, _)
CutAt(flat, cur) ==
    IF flat = <<>> THEN << cur >>
    ELSE IF Head(flat) = Cut
         THEN << cur >> \o CutAt(Tail(flat), <<>>)
         ELSE CutAt(Tail(flat), Append(cur, Head(flat)))

AggInputs ==
    { <<>> } \cup { CutAt(flat, <<>>) : flat \in SeqsUpTo(AggChars \cup { Cut }, MaxAggChars) }

\* a DocumentCleaner about to combine a list of cleaned texts
AggInit ==
    /\ pc = "aggregate"
    /\ input_file = "text"
    /\ doc = <<>>
    /\ max_retries = 0
    /\ FreshRun
    /\ cleaned_chunks \in AggInputs
    /\ seg_pc = "ready"
    /\ chunk_size = None
    /\ chunk_overlap = None
    /\ self_chunk_size = DEFAULT_CHUNK_SIZE
    /\ self_chunk_overlap = DEFAULT_CHUNK_SIZE \div 10
    /\ text = <<>>
    /\ seg_chunks = <<>>
    /\ ChatIdle

AggNext == Aggregate

AggSpec == AggInit /\ [][AggNext]_vars

\* C23: the combined text is the reference: every text trimmed, those empty
\* after trimming left out, the rest joined with exactly one space, then
\* normalized and trimmed; a text that is empty after trimming adds nothing,
\* no separator either.
RECURSIVE C23_JoinFrom(_, _)
C23_JoinFrom(parts, k) ==
    IF k > Len(parts) THEN <<>>
    ELSE (IF k > 1 THEN << " " >> ELSE <<>>) \o parts[k] \o C23_JoinFrom(parts, k + 1)

C23_Kept(texts) ==
    SelectSeq([k \in 1..Len(texts) |-> Strip(texts[k])], LAMBDA t : t # <<>>)

C23_Reference(texts) ==
    Strip(SpaceAfterPeriod(CollapseSpaces(C23_JoinFrom(C23_Kept(texts), 1))))

C23_CombineIsReference ==
    pc = "save" =>
        /\ aggregated = C23_Reference(cleaned_chunks)
        /\ JoinSpace(StrippedNonEmpty(cleaned_chunks))
              = C23_JoinFrom(C23_Kept(cleaned_chunks), 1)
        /\ Len(JoinSpace(StrippedNonEmpty(cleaned_chunks)))
              = TotalLen(C23_Kept(cleaned_chunks))
                + (IF C23_Kept(cleaned_chunks) = <<>> THEN 0
                   ELSE Len(C23_Kept(cleaned_chunks)) - 1)

C23_Witness ==
    /\ pc = "save"
    /\ cleaned_chunks = << << "a", "\n" >>, <<>>, << "A" >> >>
    /\ aggregated = << "a", " ", "A" >>

\* C24: the combined text has no two spaces in a row and no period directly
\* before a capital letter, and normalizing it again changes nothing.
C24_UpperCase == Upper \cup { "É" }

C24_Normalized ==
    pc = "save" =>
        /\ \A k \in 1..(Len(aggregated) - 1) :
              /\ ~(aggregated[k] = " " /\ aggregated[k + 1] = " ")
              /\ ~(aggregated[k] = "." /\ aggregated[k + 1] \in C24_UpperCase)
        /\ Strip(SpaceAfterPeriod(CollapseSpaces(aggregated))) = aggregated

\* what holds: the same with the capital letters A to Z only
C24_NormalizedAscii ==
    pc = "save" =>
        /\ \A k \in 1..(Len(aggregated) - 1) :
              /\ ~(aggregated[k] = " " /\ aggregated[k + 1] = " ")
              /\ ~(aggregated[k] = "." /\ aggregated[k + 1] \in Upper)
        /\ Strip(SpaceAfterPeriod(CollapseSpaces(aggregated))) = aggregated

\* C25: every run ends (result returned, DocumentCleaningError raised, or
\* interrupted), and _clean_chunks makes at most
\* len(chunks) * (max_retries + 1) cleaning attempts: the chunks are taken one
\* after the other, each once, and a chunk gets at most max_retries + 1
\* attempts.
C25_Terminated == pc \in { "done", "failed", "interrupted" }

C25_Inv ==
    /\ i <= Len(chunks)
    /\ calls <= max_retries + 1
    /\ calls > 0 => i \in 1..Len(chunks)
    /\ C25_Terminated => ~ENABLED Next

C25_Step ==
    /\ calls' # calls =>
          \/ calls' = calls + 1 /\ i' = i /\ pc = "call"
          \/ calls' = 0 /\ i' = i + 1
    /\ i' # i => i' = i + 1 /\ calls' = 0

C26_Attempting ==
    pc \in { "call", "request", "error_details", "gw_sleep", "check", "backoff", "exhausted" }

C26_Inv ==
    /\ Len(outcomes) \in { i - 1, i } \/ (i = 0 /\ outcomes = <<>>)
    /\ C26_Attempting => /\ i >= 1
                         /\ Len(outcomes) = i - 1
    /\ pc \in { "request", "error_details", "gw_sleep", "check" } => calls = attempt + 1
    /\ pc = "call" => calls = attempt
    /\ \A k \in 1..Len(outcomes) : outcomes[k].chunk = k

C26_Step ==
    /\ calls' # calls /\ calls' # 0 =>
          /\ pc = "call"
          /\ calls' = calls + 1
          /\ calls' = attempt + 1
    /\ (pc = "check" /\ cleaned_text.type = "str" /\ Truthy(Strip(cleaned_text.val))) =>
          /\ pc' = "loop"
          /\ outcomes' = Append(outcomes, [kind |-> "cleaned", text |-> cleaned_text.val,
                                           chunk |-> i])
          /\ cleaned_chunks' = Append(cleaned_chunks, cleaned_text.val)
    /\ outcomes' # outcomes =>
          /\ Len(outcomes') = Len(outcomes) + 1
          /\ SubSeq(outcomes', 1, Len(outcomes)) = outcomes
          /\ outcomes'[i].kind = "cleaned" =>
                /\ pc = "check"
                /\ Truthy(Strip(cleaned_text.val))
          /\ outcomes'[i].kind = "fallback" =>
                /\ pc = "exhausted"
                /\ last_error # NoError
                /\ calls = max_retries + 1
                /\ outcomes'[i].text = chunks[i].content
          /\ pc' = "loop"

C26_ChunkStateMachine == []C26_Inv /\ [][C26_Step]_vars

C26_Witness ==
    /\ pc = "loop"
    /\ i = 2
    /\ calls = 2
    /\ outcomes[1].kind = "fallback"
    /\ outcomes[2].kind = "cleaned"

\* C27: for one chunk at most (max_retries + 1) * (MAX_RETRIES + 1) POST
\* requests are sent, whatever the answers; an answer with a 4xx status ends
\* the clean_text call it belongs to: no wait in the client and no further
\* request of that call follow it.
C27_Inv ==
    /\ requests <= calls * (MAX_RETRIES + 1)
    /\ calls <= max_retries + 1
    /\ requests <= (max_retries + 1) * (MAX_RETRIES + 1)
    /\ pc \in { "request", "error_details", "gw_sleep" } =>
          /\ gw_attempt <= MAX_RETRIES
          /\ requests <= (calls - 1) * (MAX_RETRIES + 1) + gw_attempt + 1

C27_Step ==
    /\ requests' # requests =>
          \/ pc = "request" /\ requests' = requests + 1
          \/ pc = "loop" /\ requests' = 0
    /\ (pc = "error_details" /\ IsClientError(http_error)) =>
          /\ pc' \in { "backoff", "exhausted" }
          /\ last_error' = http_error
          /\ gw_attempt' = 0
          /\ gw_slept' = 0
          /\ requests' = requests
    /\ gw_slept' > gw_slept =>
          /\ pc = "gw_sleep"
          /\ ~IsClientError(last_exception)

C27_RequestsBounded == []C27_Inv /\ [][C27_Step]_vars

C27_Witness ==
    /\ pc = "exhausted"
    /\ max_retries >= 1
    /\ calls = max_retries + 1
    /\ requests = (max_retries + 1) * (MAX_RETRIES + 1)

\* C28: clean_text sends no request for a blank text and returns the text as
\* it is; the processor takes that for an empty answer at every attempt, so a
\* blank chunk is never cleaned: it falls back to its text after
\* max_retries + 1 attempts and counts as failed.
C28_Blank(k) == k \in 1..Len(chunks) /\ ~Truthy(Strip(chunks[k].content))

C28_Inv ==
    /\ (C28_Blank(i) /\ C26_Attempting) =>
          /\ requests = 0
          /\ pc \in { "call", "check", "backoff", "exhausted" }
          /\ pc = "check" => cleaned_text = Str(chunks[i].content)
          /\ pc = "exhausted" => /\ calls = max_retries + 1
                                 /\ last_error = APIClientError("empty_text", NoStatus)
    /\ \A k \in 1..Len(outcomes) :
          C28_Blank(k) => /\ outcomes[k].kind = "fallback"
                          /\ outcomes[k].text = chunks[k].content

C28_Step ==
    (C28_Blank(i) /\ outcomes' # outcomes) =>
        /\ pc = "exhausted"
        /\ calls = max_retries + 1
        /\ requests = 0
        /\ failed' = failed + 1
        /\ successful' = successful
        /\ cleaned_chunks' = Append(cleaned_chunks, chunks[i].content)

C28_BlankFallsBack == []C28_Inv /\ [][C28_Step]_vars

C28_Witness ==
    /\ pc = "loop"
    /\ i >= 1
    /\ C28_Blank(i)
    /\ max_retries >= 1
    /\ calls = max_retries + 1
    /\ requests = 0
    /\ outcomes[i].kind = "fallback"
    /\ failed >= 1

\* C29: whatever max_retries is, 0 and negative values included, a chunk that
\* has been processed has exactly one outcome, reached after exactly one
\* attempt when max_retries <= 0, and no run is aborted at a chunk that has
\* not been attempted at all.
C29_OneOutcomeAnyRetries ==
    /\ (max_retries <= 0 /\ pc = "exhausted") => calls = 1
    /\ (max_retries <= 0 /\ pc = "loop" /\ i >= 1) =>
          /\ Len(outcomes) = i
          /\ calls = 1
    /\ (pc = "failed" /\ i >= 1 /\ Len(outcomes) < i) => calls >= 1

\* ------------------------------------------------------------------
\* The sales chat client: SalesChatApp
\* ------------------------------------------------------------------
MaxTurns == 4

\* the buyer's fixed opening line, shortened
Greeting == << "h", "e", "l", "l", "o" >>

\* what the salesperson may type at the prompt
ChatLines ==
    { << "h", "i" >>, << " ", "h", "i", " " >>, << "o", "k" >>, <<>>, << " " >>,
      << "b", "y", "e" >>, << " ", "B", "Y", "E" >>, << "B", "y", "e", " " >> }

\* str.lower on the letters of ChatLines
Lower(s) ==
    [k \in 1..Len(s) |->
        CASE s[k] = "B" -> "b"
          [] s[k] = "Y" -> "y"
          [] s[k] = "E" -> "e"
          [] OTHER -> s[k]]

ChatReplies == { << "n", "o" >>, << "o", "k" >> }

\* what POST /chat brings: a reply, or any failure (no connection, timeout,
\* error status, a body without "response")
ChatResponses ==
    { [kind |-> "ok", response |-> r] : r \in ChatReplies }
    \cup { [kind |-> "failed", response |-> <<>>] }

Message(role, content) == [role |-> role, content |-> content]

\* a SalesChatApp just built: main() has seen the server healthy
ChatInit ==
    /\ pc = "idle"
    /\ input_file = "text"
    /\ doc = <<>>
    /\ max_retries = 0
    /\ Fresh
    /\ seg_pc = "ready"
    /\ chunk_size = None
    /\ chunk_overlap = None
    /\ self_chunk_size = DEFAULT_CHUNK_SIZE
    /\ self_chunk_overlap = DEFAULT_CHUNK_SIZE \div 10
    /\ text = <<>>
    /\ seg_chunks = <<>>
    /\ chat_pc = "start"
    /\ chat_history = <<>>
    /\ user_input = <<>>
    /\ payload = NoPayload
    /\ posts = 0
    /\ turn_result = "none"

\* start_conversation up to the loop: the greeting is sent and recorded; a
\* failure leaves start_conversation as an exception
StartConversation ==
    /\ chat_pc = "start"
    /\ payload' = [message |-> Greeting, chat_history |-> chat_history]
    /\ posts' = posts + 1
    /\ \E r \in ChatResponses :
          IF r.kind = "ok"
          THEN /\ chat_history' = chat_history \o << Message("user", Greeting),
                                                    Message("assistant", r.response) >>
               /\ chat_pc' = "loop"
               /\ turn_result' = "ok"
          ELSE /\ chat_history' = chat_history
               /\ chat_pc' = "error"
               /\ turn_result' = "failed"
    /\ user_input' = user_input
    /\ UNCHANGED << segVars, pipelineVars >>

\* a loop that records the user's message before it asks for the reply
ConversationTurnAppendsFirst ==
    /\ chat_pc = "loop"
    /\ Len(chat_history) < 2 * MaxTurns
    /\ \E interrupted \in BOOLEAN, line \in ChatLines, r \in ChatResponses :
          IF interrupted
          THEN /\ chat_pc' = "ended"
               /\ turn_result' = "interrupted"
               /\ UNCHANGED << chat_history, user_input, payload, posts >>
          ELSE /\ user_input' = Strip(line)
               /\ IF Lower(user_input') = << "b", "y", "e" >>
                  THEN /\ chat_pc' = "ended"
                       /\ turn_result' = "bye"
                       /\ UNCHANGED << chat_history, payload, posts >>
                  ELSE IF ~Truthy(user_input')
                  THEN /\ chat_pc' = chat_pc
                       /\ turn_result' = "empty"
                       /\ UNCHANGED << chat_history, payload, posts >>
                  ELSE /\ payload' = [message |-> user_input',
                                      chat_history |-> Append(chat_history,
                                                              Message("user", user_input'))]
                       /\ posts' = posts + 1
                       /\ IF r.kind = "ok"
                          THEN /\ chat_history' =
                                     chat_history \o << Message("user", user_input'),
                                                        Message("assistant", r.response) >>
                               /\ chat_pc' = chat_pc
                               /\ turn_result' = "ok"
                          ELSE /\ chat_history' = Append(chat_history,
                                                         Message("user", user_input'))
                               /\ chat_pc' = "ended"
                               /\ turn_result' = "failed"
    /\ UNCHANGED << segVars, pipelineVars >>

\* one iteration of _conversation_loop: the line is read and stripped; bye
\* ends the loop, an empty line asks again, anything else is sent with the
\* history so far and recorded with its reply; Ctrl-C or a failure end the loop
ConversationTurn ==
    /\ chat_pc = "loop"
    /\ Len(chat_history) < 2 * MaxTurns
    /\ \E interrupted \in BOOLEAN, line \in ChatLines, r \in ChatResponses :
          IF interrupted
          THEN /\ chat_pc' = "ended"
               /\ turn_result' = "interrupted"
               /\ UNCHANGED << chat_history, user_input, payload, posts >>
          ELSE /\ user_input' = Strip(line)
               /\ IF Lower(user_input') = << "b", "y", "e" >>
                  THEN /\ chat_pc' = "ended"
                       /\ turn_result' = "bye"
                       /\ UNCHANGED << chat_history, payload, posts >>
                  ELSE IF ~Truthy(user_input')
                  THEN /\ chat_pc' = chat_pc
                       /\ turn_result' = "empty"
                       /\ UNCHANGED << chat_history, payload, posts >>
                  ELSE /\ payload' = [message |-> user_input',
                                      chat_history |-> chat_history]
                       /\ posts' = posts + 1
                       /\ IF r.kind = "ok"
                          THEN /\ chat_history' =
                                     chat_history \o << Message("user", user_input'),
                                                        Message("assistant", r.response) >>
                               /\ chat_pc' = chat_pc
                               /\ turn_result' = "ok"
                          ELSE /\ chat_history' = chat_history
                               /\ chat_pc' = "ended"
                               /\ turn_result' = "failed"
    /\ UNCHANGED << segVars, pipelineVars >>

ChatNext ==
    \/ StartConversation
    \/ ConversationTurn

ChatSpec == ChatInit /\ [][ChatNext]_vars

\* C30: chat_history always has even length and alternates user, assistant
\* from a user message on; a turn that succeeds appends the user's message and
\* then the reply, nothing else; a turn whose request fails, an empty line and
\* bye leave it as it is; and the history sent with a request is the history
\* before the turn, without the new message.
C30_Inv ==
    /\ Len(chat_history) % 2 = 0
    /\ \A k \in 1..Len(chat_history) :
          chat_history[k].role = IF k % 2 = 1 THEN "user" ELSE "assistant"
    /\ Len(chat_history) <= 2 * posts

C30_Step ==
    /\ chat_history' # chat_history =>
          /\ turn_result' = "ok"
          /\ posts' = posts + 1
          /\ Len(chat_history') = Len(chat_history) + 2
          /\ SubSeq(chat_history', 1, Len(chat_history)) = chat_history
          /\ chat_history'[Len(chat_history) + 1] = Message("user", payload'.message)
          /\ chat_history'[Len(chat_history) + 2].content \in ChatReplies
          /\ chat_pc = "loop" => payload'.message = user_input'
    /\ posts' # posts =>
          /\ payload'.chat_history = chat_history
          /\ turn_result' \in { "ok", "failed" }
          /\ turn_result' = "ok" => chat_history' # chat_history
    /\ (turn_result' \in { "failed", "empty", "bye", "interrupted" }
        /\ << turn_result', posts', user_input', chat_pc' >>
              # << turn_result, posts, user_input, chat_pc >>) =>
          chat_history' = chat_history
    /\ (chat_pc = "loop" /\ chat_pc' = "loop" /\ ~Truthy(user_input')) =>
          /\ chat_history' = chat_history
          /\ posts' = posts
    /\ (chat_pc = "loop" /\ Lower(user_input') = << "b", "y", "e" >>
        /\ user_input' # user_input) =>
          /\ chat_history' = chat_history
          /\ posts' = posts

C30_HistoryAlternates == []C30_Inv /\ [][C30_Step]_vars

C30_Witness ==
    /\ chat_pc = "loop"
    /\ turn_result = "empty"
    /\ posts = 2
    /\ Len(chat_history) = 4
    /\ chat_history[3] = Message("user", << "h", "i" >>)
    /\ chat_history[4].role = "assistant"
    /\ payload.chat_history = SubSeq(chat_history, 1, 2)

====
